---- MODULE Spec2Model ----
(***************************************************************************)
(* The product catalog store of src/contexts/ProductContext.tsx: a React   *)
(* provider that keeps the product list in component state, writes every   *)
(* mutation to the localStorage slot 'products' and re-reads it on         *)
(* refresh.                                                                *)
(*                                                                         *)
(* JavaScript values are records [t, n, s]: t is the type tag, n the       *)
(* number (in hundredths, so that prices with two decimals stay exact) or  *)
(* the boolean as 0/1, s the characters of a string or the elements of an  *)
(* array of strings.  A property that a record does not carry reads as     *)
(* undefined, as it does in JavaScript.                                    *)
(***************************************************************************)
EXTENDS Integers, Sequences, FiniteSets, TLC

\* ------------------------------------------------------------ bounds
\* Date.now() at the first page load, in milliseconds.
Now0 == 10
\* How many milliseconds the clock advances in a run.
MaxTicks == 1
\* How many store calls, page loads and foreign storage writes a run makes.
MaxOps == 3
\* How many records the text of the slot can hold before setItem finds the
\* storage quota exceeded.
QuotaItems == 5

\* ------------------------------------------------------------ JavaScript values
Hundred == 10 * 10

Undefined == [t |-> "undefined", n |-> 0, s |-> <<>>]
Null == [t |-> "null", n |-> 0, s |-> <<>>]
NaN == [t |-> "NaN", n |-> 0, s |-> <<>>]
\* the number k / 100
Num(k) == [t |-> "number", n |-> k, s |-> <<>>]
\* the integer k
Whole(k) == Num(k * Hundred)
Bool(b) == [t |-> "boolean", n |-> IF b THEN 1 ELSE 0, s |-> <<>>]
\* a string given by its characters
Text(chars) == [t |-> "string", n |-> 0, s |-> chars]
\* a label whose characters are never inspected, kept as one symbol
Str(x) == Text(<<x>>)
Arr(xs) == [t |-> "array", n |-> 0, s |-> xs]

\* ToBoolean, as the operands of || and of if (...) are converted
Truthy(v) ==
  CASE v.t \in {"undefined", "null", "NaN"} -> FALSE
    [] v.t = "number" -> v.n # 0
    [] v.t = "boolean" -> v.n = 1
    [] v.t = "string" -> v.s # <<>>
    [] OTHER -> TRUE

\* a || b
OrElse(a, b) == IF Truthy(a) THEN a ELSE b

\* Two digits of a number below 100, zero padded
Pad2(k) == IF k < 10 THEN "0" \o ToString(k) ELSE ToString(k)

\* new Date(t).toISOString(): a fixed-width text, t being milliseconds below 100
toISOString(t) == Str("2026-11-05T00:00:00.0" \o Pad2(t) \o "Z")

IsoTimes == 0..99
IsoTable == [t \in IsoTimes |-> toISOString(t)]

\* a >= b on two values as JavaScript compares them: two ISO texts of the same
\* width compare as their instants do, and a comparison with undefined is false
GreaterOrEqual(a, b) ==
  /\ \E t \in IsoTimes : IsoTable[t] = a
  /\ \E t \in IsoTimes : IsoTable[t] = b
  /\ (CHOOSE t \in IsoTimes : IsoTable[t] = a) >= (CHOOSE t \in IsoTimes : IsoTable[t] = b)

\* String(v) of a number: the decimal text, without a fraction when it is whole
NumberToString(k) ==
  IF k % Hundred = 0 THEN ToString(k \div Hundred)
  ELSE ToString(k \div Hundred) \o "." \o Pad2(k % Hundred)

\* String(v)
String(v) ==
  CASE v.t = "string" -> v
    [] v.t = "number" -> Str(NumberToString(v.n))
    [] OTHER -> Str(v.t)

\* ------------------------------------------------------------ products
Fields == {"id", "category", "price", "inStock", "sizes", "media", "createdAt", "updatedAt"}

\* An object with none of the fields
Empty == [f \in Fields |-> Undefined]

DefaultSizes == Arr(<<"S", "M", "L", "XL">>)
NoMedia == Arr(<<>>)

\* ------------------------------------------------------------ seed conversion
Digits == {"0", "1", "2", "3", "4", "5", "6", "7", "8", "9"}

DigitValue(c) == CHOOSE d \in 0..9 : ToString(d) = c

\* price.replace(/[^0-9.-]+/g, ''): every character that is no digit, dot or
\* minus is removed
StripNonNumeric(chars) == SelectSeq(chars, LAMBDA c : c \in Digits \cup {".", "-"})

\* The length of the longest prefix of chars made of digits
DigitPrefix(chars) ==
  CHOOSE k \in 0..Len(chars) :
    /\ \A i \in 1..k : chars[i] \in Digits
    /\ k < Len(chars) => chars[k + 1] \notin Digits

RECURSIVE DecimalValue(_)
DecimalValue(digits) ==
  IF digits = <<>> THEN 0
  ELSE 10 * DecimalValue(SubSeq(digits, 1, Len(digits) - 1)) + DigitValue(digits[Len(digits)])

\* parseFloat(text): an optional sign, digits, an optional dot and digits; what
\* follows is ignored, and NaN when there is no digit.  The value is kept to
\* two decimals.
parseFloat(chars) ==
  LET signed == chars # <<>> /\ chars[1] \in {"-", "+"}
      body == IF signed THEN Tail(chars) ELSE chars
      k == DigitPrefix(body)
      rest == SubSeq(body, k + 1, Len(body))
      after == IF rest # <<>> /\ rest[1] = "." THEN Tail(rest) ELSE <<>>
      f == DigitPrefix(after)
      frac == SubSeq(after \o <<"0", "0">>, 1, 2)
      abs == DecimalValue(SubSeq(body, 1, k)) * Hundred
             + (IF f = 0 THEN 0 ELSE DecimalValue(IF f = 1 THEN <<frac[1], "0">> ELSE frac))
  IN  IF k = 0 /\ f = 0 THEN NaN
      ELSE IF signed /\ chars[1] = "-" THEN Num(0 - abs) ELSE Num(abs)

\* v * k for a number literal k: ToNumber(v) first
Times(v, k) ==
  CASE v.t = "number" -> Num(v.n * k)
    [] v.t = "null" -> Num(0)
    [] v.t = "boolean" -> Num(v.n * Hundred * k)
    [] v.t = "string" -> (IF v.s = <<>> THEN Num(0)
                          ELSE IF parseFloat(v.s) = NaN THEN NaN
                          ELSE Num(parseFloat(v.s).n * k))
    [] OTHER -> NaN

\* convertToProduct(product), evaluated at clock value t
convertToProduct(product, t) ==
  [product EXCEPT !.id = String(product.id),
                  !.media = OrElse(product.media, NoMedia),
                  !.createdAt = OrElse(product.createdAt, toISOString(t)),
                  !.updatedAt = OrElse(product.updatedAt, toISOString(t))]

convertPriceUnstripped(price) ==
  IF price.t = "string" THEN Times(parseFloat(price.s), 75)
  ELSE Times(price, 75)

\* The price of one converted record
convertPrice(price) ==
  IF price.t = "string" THEN Times(parseFloat(StripNonNumeric(price.s)), 75)
  ELSE Times(price, 75)

\* convertToINR(products), evaluated at clock value t
convertToINR(raw, t) ==
  [i \in 1..Len(raw) |->
     [convertToProduct(raw[i], t) EXCEPT !.price = convertPrice(raw[i].price)]]

\* The four static datasets of ../data/products, one record each
mensProducts ==
  << [Empty EXCEPT !.id = Whole(1), !.category = Str("Men"),
                   !.price = Text(<<"$", "1", "0", ".", "0", "0">>),
                   !.inStock = Bool(TRUE), !.sizes = DefaultSizes] >>
womensProducts ==
  << [Empty EXCEPT !.id = Whole(2), !.category = Str("Women"),
                   !.price = Whole(10), !.inStock = Bool(TRUE),
                   !.media = Arr(<<"w.jpg">>)] >>
kidsProducts ==
  << [Empty EXCEPT !.id = Str("3"), !.category = Str("Kids"),
                   !.price = Text(<<"1", ",", "2", "0", "0", ".", "5">>),
                   !.inStock = Bool(FALSE),
                   !.createdAt = toISOString(3), !.updatedAt = toISOString(5)] >>
watchesProducts ==
  << [Empty EXCEPT !.id = Whole(4), !.category = Str("Watches"),
                   !.price = Text(<<"$", "1", "0", ".", "0", "0">>),
                   !.inStock = Bool(TRUE)] >>

\* initialProducts, as the module computes it when it is loaded at clock value t
SeedAt(t) ==
  convertToINR(mensProducts, t) \o convertToINR(womensProducts, t)
    \o convertToINR(kidsProducts, t) \o convertToINR(watchesProducts, t)

\* initialProducts for any four datasets ds = <<men, women, kids, watches>>
SeedOf(ds, t) ==
  convertToINR(ds[1], t) \o convertToINR(ds[2], t)
    \o convertToINR(ds[3], t) \o convertToINR(ds[4], t)

\* ------------------------------------------------------------ JSON and the slot
\* A JSON token of a value: NaN has no JSON form and is written as null
Token(v) == IF v.t = "NaN" THEN Null ELSE v

\* The text of one object: the properties that are not undefined
ObjectText(p) == [f \in {g \in Fields : p[g].t # "undefined"} |-> Token(p[f])]

\* JSON.stringify(list): the text of an array of objects
JSONstringify(list) ==
  [kind |-> "json", items |-> [i \in 1..Len(list) |-> ObjectText(list[i])]]

\* The object a text of one object yields
ObjectValue(o) == [f \in Fields |-> IF f \in DOMAIN o THEN o[f] ELSE Undefined]

\* The slot's contents: no item, the empty string, a text that is no JSON, or
\* the JSON text of an array
Absent == [kind |-> "absent", items |-> <<>>]
EmptyString == [kind |-> "empty", items |-> <<>>]
Garbage == [kind |-> "garbage", items |-> <<>>]

\* Whether JSON.parse(text) returns (it throws a SyntaxError otherwise)
Parseable(text) == text.kind = "json"

\* JSON.parse(text) of a parseable text
JSONparse(text) == [i \in 1..Len(text.items) |-> ObjectValue(text.items[i])]

\* Whether getItem's result is truthy: null and '' are not
Stored(slot) == slot.kind \in {"garbage", "json"}

\* ------------------------------------------------------------ the store's state
VARIABLES
  now,              \* Date.now(), in milliseconds
  storage,          \* the localStorage slot 'products'
  initialProducts,  \* the seed list the loaded module holds
  mounted,          \* whether ProductProvider rendered (FALSE: its initializer threw)
  products,         \* the products state of the last render, which the callbacks close over
  pending,          \* the value setProducts has queued for the next render
  loading,          \* the loading state
  error,            \* the error state: Null or a message
  pc,               \* where refreshProducts stands: "idle", "try", "finally"
  last,             \* the last call: its name, argument, the lists it found, whether it threw
  nOps,             \* how many calls the run has made
  datasets,         \* the four datasets of ../data/products the module imports
  other             \* a second ProductProvider on the same slot (another tab): its list

vars == <<now, storage, initialProducts, mounted, products, pending, loading, error, pc, last, nOps,
          datasets, other>>

NoUpdate == [set |-> FALSE, val |-> <<>>]
Update(list) == [set |-> TRUE, val |-> list]

\* The list the next render shows: the queued value if there is one
LiveList == IF pending.set THEN pending.val ELSE products

\* What a call leaves in last: op its name, arg its argument, before the list its
\* closure held, live the list of the state it found, slot the slot it found, at
\* the clock, threw whether it threw to its caller, prev the call before it
Call(op, arg, threw) ==
  [op |-> op, arg |-> arg, before |-> products, live |-> LiveList,
   slot |-> storage, at |-> now, threw |-> threw, prev |-> last.op]

\* ------------------------------------------------------------ inputs
\* Identifiers callers pass: one of the seed, the one an add at the first clock
\* value assigns, and one no entry has
IdInputs == {Str("1"), String(Whole(Now0)), Str("99")}

\* Records callers pass to addProduct: a whole record (with an identifier, a
\* stock flag and timestamps of its own), and a bare one whose price is NaN
AddInputs ==
  { [Empty EXCEPT !.id = Str("7"), !.category = Str("Men"), !.price = Whole(500),
                  !.inStock = Bool(FALSE), !.sizes = Arr(<<"M">>),
                  !.media = Arr(<<"a.jpg">>), !.createdAt = toISOString(1),
                  !.updatedAt = toISOString(2)],
    [Empty EXCEPT !.category = Str("Watches"), !.price = NaN] }

\* Records callers pass to updateProduct: a whole record created earlier, one
\* without createdAt, one whose createdAt is later than the clock ever gets
WholeUpdate ==
    [Empty EXCEPT !.category = Str("Kids"), !.price = Whole(900),
                  !.inStock = Bool(TRUE), !.sizes = Arr(<<"L">>), !.media = NoMedia,
                  !.createdAt = toISOString(3), !.updatedAt = toISOString(4)]
BareUpdate == [Empty EXCEPT !.category = Str("Men"), !.price = Whole(100)]
LateUpdate ==
    [Empty EXCEPT !.category = Str("Women"), !.price = Whole(200),
                  !.createdAt = toISOString(90), !.updatedAt = toISOString(90)]

UpdateInputs ==
  {[WholeUpdate EXCEPT !.id = id] : id \in IdInputs}
    \cup {[BareUpdate EXCEPT !.id = Str("1")], [LateUpdate EXCEPT !.id = Str("1")]}

\* What the slot can hold when the page is first loaded: nothing, the empty
\* string, a text that is no JSON, or the snapshot an earlier session wrote
EarlierSnapshot ==
  JSONstringify(<< [Empty EXCEPT !.id = Str("1"), !.category = Str("Watches"),
                                 !.price = Whole(300), !.inStock = Bool(TRUE),
                                 !.sizes = DefaultSizes, !.media = NoMedia,
                                 !.createdAt = toISOString(2),
                                 !.updatedAt = toISOString(6)] >>)

InitialSlots == {Absent, EmptyString, Garbage, EarlierSnapshot}

\* What other code of the page, or the user, leaves in the slot
ForeignSlots == {Absent, EmptyString, Garbage}

\* ------------------------------------------------------------ the handlers' computations
\* The useState initializer: whether it throws, and the list it returns
initializerThrows(slot) == Stored(slot) /\ ~Parseable(slot)
initializer(slot, seed) == IF Stored(slot) THEN JSONparse(slot) ELSE seed

\* newProduct of addProduct, at clock value t
newProduct(product, t) ==
  [product EXCEPT !.id = String(Whole(t)),
                  !.inStock = Bool(TRUE),
                  !.sizes = OrElse(product.sizes, DefaultSizes),
                  !.media = OrElse(product.media, NoMedia),
                  !.createdAt = toISOString(t),
                  !.updatedAt = toISOString(t)]

\* updatedProducts of addProduct
addedProducts(list, product, t) == list \o <<newProduct(product, t)>>

replacedProductsMerged(list, updatedProduct, t) ==
  [i \in 1..Len(list) |->
     IF list[i].id = updatedProduct.id
     THEN [f \in Fields |->
             IF f = "updatedAt" THEN toISOString(t)
             ELSE IF updatedProduct[f] = Undefined THEN list[i][f] ELSE updatedProduct[f]]
     ELSE list[i]]

\* updatedProducts of updateProduct
replacedProducts(list, updatedProduct, t) ==
  [i \in 1..Len(list) |->
     IF list[i].id = updatedProduct.id
     THEN [updatedProduct EXCEPT !.updatedAt = toISOString(t)]
     ELSE list[i]]

\* updatedProducts of deleteProduct
remainingProducts(list, productId) == SelectSeq(list, LAMBDA p : p.id # productId)

productsByCategoryOnly(list, category) ==
  SelectSeq(list, LAMBDA p : p.category = category)

\* The result of getProductsByCategory(category) on the list its closure holds
productsByCategory(list, category) ==
  SelectSeq(list, LAMBDA p : IF category = Str("All") THEN TRUE ELSE p.category = category)

refreshNeverThrows(slot) == FALSE

refreshedOrEmpty(slot, seed) == IF Stored(slot) THEN JSONparse(slot) ELSE <<>>

\* refreshProducts: whether its try block throws (JSON.parse on a text that is
\* no JSON), and the list it passes to setProducts when it does not
refreshThrows(slot) == Stored(slot) /\ ~Parseable(slot)
refreshedProducts(slot, seed) == IF Stored(slot) THEN JSONparse(slot) ELSE seed

\* saveProductsToStorage(list): the slot after a setItem that succeeded
saveProductsToStorage(list) == JSONstringify(list)

Ready == mounted /\ pc = "idle" /\ nOps < MaxOps

\* Whether setItem stores the text of list: it throws a QuotaExceededError, and
\* leaves the slot as it was, when the text does not fit
Fits(list) == Len(list) <= QuotaItems

SetAndSaveStale(list) ==
  /\ pending' = Update(list)
  /\ storage' = IF Fits(list) THEN saveProductsToStorage(products) ELSE storage

\* setProducts(list); saveProductsToStorage(list), the end of the three mutating
\* handlers: when setItem throws, the state update is already queued, the slot
\* is left as it was, and the handler throws to its caller
SetAndSave(list) ==
  /\ pending' = Update(list)
  /\ storage' = IF Fits(list) THEN saveProductsToStorage(list) ELSE storage

\* ------------------------------------------------------------ actions
addProduct(product) ==
  /\ Ready
  /\ SetAndSave(addedProducts(products, product, now))
  /\ last' = Call("addProduct", product, ~Fits(addedProducts(products, product, now)))
  /\ nOps' = nOps + 1
  /\ UNCHANGED <<datasets, other, now, initialProducts, mounted, products, loading, error, pc>>

updateProduct(updatedProduct) ==
  /\ Ready
  /\ SetAndSave(replacedProducts(products, updatedProduct, now))
  /\ last' = Call("updateProduct", updatedProduct, ~Fits(replacedProducts(products, updatedProduct, now)))
  /\ nOps' = nOps + 1
  /\ UNCHANGED <<datasets, other, now, initialProducts, mounted, products, loading, error, pc>>

deleteProduct(productId) ==
  /\ Ready
  /\ SetAndSave(remainingProducts(products, productId))
  /\ last' = Call("deleteProduct", [Empty EXCEPT !.id = productId], ~Fits(remainingProducts(products, productId)))
  /\ nOps' = nOps + 1
  /\ UNCHANGED <<datasets, other, now, initialProducts, mounted, products, loading, error, pc>>

\* refreshProducts, lines 97-98: setLoading(true); setError(null)
refreshBegin ==
  /\ Ready
  /\ pc' = "try"
  /\ loading' = TRUE
  /\ error' = Null
  /\ last' = Call("refreshProducts", Empty, FALSE)
  /\ nOps' = nOps + 1
  /\ UNCHANGED <<datasets, other, now, storage, initialProducts, mounted, products, pending>>

\* refreshProducts, lines 99-107: the read, the parse, and the catch
refreshRead ==
  /\ pc = "try"
  /\ pc' = "finally"
  /\ IF refreshThrows(storage)
     THEN pending' = pending /\ error' = Str("Failed to refresh products")
     ELSE pending' = Update(refreshedProducts(storage, initialProducts)) /\ error' = error
  /\ UNCHANGED <<datasets, other, now, storage, initialProducts, mounted, products, loading, last, nOps>>

refreshFinallyInTry ==
  /\ pc = "finally"
  /\ pc' = "idle"
  /\ loading' = (error # Null)
  /\ UNCHANGED <<datasets, other, now, storage, initialProducts, mounted, products, pending, error, last, nOps>>

\* refreshProducts, line 109: setLoading(false), and the promise resolves
refreshFinally ==
  /\ pc = "finally"
  /\ pc' = "idle"
  /\ loading' = FALSE
  /\ UNCHANGED <<datasets, other, now, storage, initialProducts, mounted, products, pending, error, last, nOps>>

\* React renders the provider again: the queued list becomes the products that
\* the callbacks of the new store value close over
render ==
  /\ mounted /\ pc = "idle"
  /\ pending.set
  /\ products' = pending.val
  /\ pending' = NoUpdate
  /\ UNCHANGED <<datasets, other, now, storage, initialProducts, mounted, loading, error, pc, last, nOps>>

\* The page is loaded again: the module computes initialProducts and a new
\* ProductProvider runs its state initializers
load ==
  /\ pc = "idle" /\ nOps < MaxOps
  /\ initialProducts' = SeedOf(datasets, now)
  /\ mounted' = ~initializerThrows(storage)
  /\ products' = IF initializerThrows(storage) THEN <<>>
                 ELSE initializer(storage, SeedOf(datasets, now))
  /\ pending' = NoUpdate
  /\ loading' = FALSE
  /\ error' = Null
  /\ last' = Call("load", Empty, initializerThrows(storage))
  /\ nOps' = nOps + 1
  /\ UNCHANGED <<datasets, other, now, storage, pc>>

\* Something else writes or clears the slot
foreignWrite(slot) ==
  /\ pc = "idle" /\ nOps < MaxOps
  /\ slot # storage
  /\ storage' = slot
  /\ last' = Call("foreignWrite", Empty, FALSE)
  /\ nOps' = nOps + 1
  /\ UNCHANGED <<datasets, other, now, initialProducts, mounted, products, pending, loading, error, pc>>

\* A millisecond passes
tick ==
  /\ pc = "idle"
  /\ now < Now0 + MaxTicks
  /\ now' = now + 1
  /\ UNCHANGED <<datasets, other, storage, initialProducts, mounted, products, pending, loading, error, pc, last, nOps>>

Init ==
  /\ now = Now0
  /\ storage \in InitialSlots
  /\ initialProducts = SeedAt(Now0)
  /\ mounted = ~initializerThrows(storage)
  /\ products = IF initializerThrows(storage) THEN <<>>
                ELSE initializer(storage, SeedAt(Now0))
  /\ pending = NoUpdate
  /\ loading = FALSE
  /\ error = Null
  /\ pc = "idle"
  /\ last = [op |-> "load", arg |-> Empty, before |-> <<>>, live |-> <<>>,
             slot |-> storage, at |-> Now0, threw |-> initializerThrows(storage),
             prev |-> "none"]
  /\ nOps = 0
  /\ datasets = <<mensProducts, womensProducts, kidsProducts, watchesProducts>>
  /\ other = [open |-> ~initializerThrows(storage),
              products |-> IF initializerThrows(storage) THEN <<>>
                           ELSE initializer(storage, SeedAt(Now0))]

\* ------------------------------------------------------------ reads
\* What a call that returns leaves in last: the call, and with it the value it
\* returned and the argument and value of the call before it
Return(op, arg, threw, result) ==
  Call(op, arg, threw) @@
    [result |-> result, prevArg |-> last.arg,
     prevResult |-> IF "result" \in DOMAIN last THEN last.result ELSE <<>>]

\* Categories callers pass: the sentinel, a label of the data, the same label
\* in lower case
CategoryInputs == {Str("All"), Str("Watches"), Str("watches")}

getProductsByCategoryAndSave(category) ==
  /\ Ready
  /\ last' = Return("getProductsByCategory", [Empty EXCEPT !.category = category], FALSE,
                    productsByCategory(products, category))
  /\ nOps' = nOps + 1
  /\ storage' = saveProductsToStorage(productsByCategory(products, category))
  /\ UNCHANGED <<datasets, other, now, initialProducts, mounted, products, pending,
                 loading, error, pc>>

\* getProductsByCategory(category), called through the store value of the last
\* render
getProductsByCategory(category) ==
  /\ Ready
  /\ last' = Return("getProductsByCategory", [Empty EXCEPT !.category = category], FALSE,
                    productsByCategory(products, category))
  /\ nOps' = nOps + 1
  /\ UNCHANGED <<datasets, other, now, storage, initialProducts, mounted, products, pending,
                 loading, error, pc>>

\* The value object the provider passes down, without its callbacks
value == [products |-> products, loading |-> loading, error |-> error]

\* useContext(ProductContext) in a component that is inside a ProductProvider
\* or not: the provider's value, or the default undefined of createContext
useContext(inside) ==
  IF inside THEN [t |-> "object", n |-> 0, s |-> <<>>, value |-> value]
  ELSE Undefined

useProductsNeverThrows(context) == FALSE

\* useProducts: whether it throws
useProductsThrows(context) == context.t = "undefined"

MustBeUsedWithin == "useProducts must be used within a ProductProvider"

\* useProducts(), called by a component inside or outside a ProductProvider
useProducts(inside) ==
  /\ pc = "idle" /\ nOps < MaxOps
  /\ inside => mounted
  /\ last' = [inside |-> inside,
              message |-> IF useProductsThrows(useContext(inside))
                          THEN MustBeUsedWithin ELSE ""] @@
             Return("useProducts", Empty, useProductsThrows(useContext(inside)),
                    useContext(inside))
  /\ nOps' = nOps + 1
  /\ UNCHANGED <<datasets, other, now, storage, initialProducts, mounted, products, pending,
                 loading, error, pc>>

Next ==
  \/ \E p \in AddInputs : addProduct(p)
  \/ \E u \in UpdateInputs : updateProduct(u)
  \/ \E id \in IdInputs : deleteProduct(id)
  \/ refreshBegin
  \/ refreshRead
  \/ refreshFinally
  \/ render
  \/ load
  \/ \E slot \in ForeignSlots : foreignWrite(slot)
  \/ tick

Spec == Init /\ [][Next]_vars

\* ------------------------------------------------------------ seeding
\* Prices a dataset record carries: a text with a currency sign, a number, a
\* text with a thousands separator, a number with a fraction
PriceInputs ==
  {Text(<<"$", "1", "0", ".", "0", "0">>), Whole(10),
   Text(<<"1", ",", "2", "0", "0", ".", "5">>), Num(1250)}

\* The datasets the module can import: the records above with any of the
\* prices, a men's dataset of two records, a kids' dataset of none
MenInputs ==
  {<<[mensProducts[1] EXCEPT !.price = p]>> : p \in PriceInputs}
    \cup {<<mensProducts[1],
             [mensProducts[1] EXCEPT !.id = Whole(5), !.price = Whole(10)]>>}
WomenInputs == {<<[womensProducts[1] EXCEPT !.price = p]>> : p \in PriceInputs}
KidsInputs == {<<[kidsProducts[1] EXCEPT !.price = p]>> : p \in PriceInputs} \cup {<<>>}
WatchesInputs == {<<[watchesProducts[1] EXCEPT !.price = p]>> : p \in PriceInputs}

\* A cold start, the slot being absent, on any of the datasets
InitSeed ==
  /\ datasets \in {<<m, w, k, x>> : m \in MenInputs, w \in WomenInputs,
                                    k \in KidsInputs, x \in WatchesInputs}
  /\ now = Now0
  /\ storage = Absent
  /\ initialProducts = SeedOf(datasets, Now0)
  /\ mounted = TRUE
  /\ products = initializer(storage, SeedOf(datasets, Now0))
  /\ pending = NoUpdate
  /\ loading = FALSE
  /\ error = Null
  /\ pc = "idle"
  /\ last = [op |-> "load", arg |-> Empty, before |-> <<>>, live |-> <<>>,
             slot |-> storage, at |-> Now0, threw |-> FALSE, prev |-> "none"]
  /\ nOps = 0
  /\ other = [open |-> FALSE, products |-> <<>>]

NextSeed == load \/ tick

SeedSpec == InitSeed /\ [][NextSeed]_vars

\* refreshProducts has no await: once called, its body runs to its end before
\* any other handler or render gets the thread
FairSpec == Spec /\ WF_vars(refreshRead) /\ WF_vars(refreshFinally)

\* One page session of the store with the components that read it: the
\* handlers, the renders and the reads, the slot being left to this store
NextReads ==
  \/ \E p \in AddInputs : addProduct(p)
  \/ \E u \in UpdateInputs : updateProduct(u)
  \/ \E id \in IdInputs : deleteProduct(id)
  \/ refreshBegin
  \/ refreshRead
  \/ refreshFinally
  \/ render
  \/ tick
  \/ \E c \in CategoryInputs : getProductsByCategory(c)
  \/ \E inside \in BOOLEAN : useProducts(inside)

ReadSpec == Init /\ [][NextReads]_vars

\* ------------------------------------------------------------ two tabs
otherSaveUnlessChanged(list) ==
  /\ other' = [other EXCEPT !.products = list]
  /\ storage' = IF Fits(list) /\ storage = saveProductsToStorage(other.products)
                THEN saveProductsToStorage(list) ELSE storage

\* setProducts(list); saveProductsToStorage(list) in the second provider, which
\* renders before its next handler runs: setItem replaces whatever the slot holds
otherSave(list) ==
  /\ other' = [other EXCEPT !.products = list]
  /\ storage' = IF Fits(list) THEN saveProductsToStorage(list) ELSE storage

\* addProduct in the second provider
otherAddProduct(product) ==
  /\ other.open /\ pc = "idle" /\ nOps < MaxOps
  /\ otherSave(addedProducts(other.products, product, now))
  /\ last' = Call("other.addProduct", product,
                  ~Fits(addedProducts(other.products, product, now)))
  /\ nOps' = nOps + 1
  /\ UNCHANGED <<datasets, now, initialProducts, mounted, products, pending,
                 loading, error, pc>>

\* deleteProduct in the second provider
otherDeleteProduct(productId) ==
  /\ other.open /\ pc = "idle" /\ nOps < MaxOps
  /\ otherSave(remainingProducts(other.products, productId))
  /\ last' = Call("other.deleteProduct", [Empty EXCEPT !.id = productId],
                  ~Fits(remainingProducts(other.products, productId)))
  /\ nOps' = nOps + 1
  /\ UNCHANGED <<datasets, now, initialProducts, mounted, products, pending,
                 loading, error, pc>>

\* Two tabs of the page, each with its provider, on the one slot
NextTwoTabs ==
  \/ \E p \in AddInputs : addProduct(p)
  \/ \E id \in IdInputs : deleteProduct(id)
  \/ refreshBegin
  \/ refreshRead
  \/ refreshFinally
  \/ render
  \/ tick
  \/ \E p \in AddInputs : otherAddProduct(p)
  \/ \E id \in IdInputs : otherDeleteProduct(id)

TwoTabSpec == Init /\ [][NextTwoTabs]_vars

\* ------------------------------------------------------------ claims
Mutators == {"addProduct", "updateProduct", "deleteProduct"}

HasId(list, id) == \E i \in DOMAIN list : list[i].id = id

\* C1: after an addProduct, updateProduct or deleteProduct whose write
\* succeeded, the slot holds the serialization of the whole list the call
\* produced (the list the next render shows), whatever the slot held before.
C1_SnapshotIsLiveList ==
  (last.op \in Mutators /\ ~last.threw) =>
    /\ storage.kind = "json"
    /\ Len(storage.items) = Len(LiveList)
    /\ \A i \in DOMAIN LiveList :
         /\ DOMAIN storage.items[i] = {f \in Fields : LiveList[i][f] # Undefined}
         /\ \A f \in DOMAIN storage.items[i] :
              storage.items[i][f] = IF LiveList[i][f] = NaN THEN Null ELSE LiveList[i][f]

\* A mutating call that changed the list has overwritten an earlier snapshot
C1_Witness ==
  /\ last.op \in Mutators /\ ~last.threw
  /\ last.slot.kind = "json" /\ storage # last.slot
  /\ LiveList # last.before

\* C2: no two entries of the live list have the same identifier.
C2_UniqueIds ==
  \A i, j \in DOMAIN LiveList : i # j => LiveList[i].id # LiveList[j].id

\* C3: addProduct(p) appends one entry to the list and keeps the entries before
\* it; the entry has p's category and price, the clock as its identifier,
\* inStock true, p's sizes and media or their defaults, both timestamps now;
\* and the list read back with 'All' after the render holds that entry once.
C3_AddAppendsOne ==
  last.op = "addProduct" =>
    LET p == last.arg
        n == Len(last.before)
        e == LiveList[n + 1]
    IN  /\ Len(LiveList) = n + 1
        /\ SubSeq(LiveList, 1, n) = last.before
        /\ e.category = p.category /\ e.price = p.price
        /\ e.id = Str(ToString(last.at))
        /\ e.inStock = Bool(TRUE)
        /\ e.sizes = IF p.sizes = Undefined THEN Arr(<<"S", "M", "L", "XL">>) ELSE p.sizes
        /\ e.media = IF p.media = Undefined THEN Arr(<<>>) ELSE p.media
        /\ e.createdAt = toISOString(last.at) /\ e.updatedAt = toISOString(last.at)
        /\ ~pending.set =>
             Cardinality({i \in DOMAIN productsByCategory(products, Str("All")) :
                            productsByCategory(products, Str("All"))[i] = e}) = 1

\* C4: updateProduct(x) with an identifier no entry has leaves the list as it
\* was and raises no error.
C4_UnmatchedUpdateNoOp ==
  (last.op = "updateProduct" /\ ~HasId(last.before, last.arg.id)) =>
    /\ LiveList = last.before
    /\ ~last.threw

\* C5: deleteProduct(id) shortens the list by one when an entry has the
\* identifier and by none otherwise, and keeps every other entry in order.
C5_DeleteRemovesOne ==
  last.op = "deleteProduct" =>
    /\ Len(LiveList) = Len(last.before) - (IF HasId(last.before, last.arg.id) THEN 1 ELSE 0)
    /\ LiveList = SelectSeq(last.before, LAMBDA q : q.id # last.arg.id)

\* C6, as amended: when the slot holds a non-empty text that is no JSON, a
\* refreshProducts that has resolved has left the list as it was, set a
\* non-empty error message and cleared the loading flag.
C6_RefreshKeepsListOnGarbage ==
  (last.op = "refreshProducts" /\ pc = "idle" /\ last.slot.kind = "garbage") =>
    /\ LiveList = last.live
    /\ error.t = "string" /\ error.s # <<>> /\ error.s # <<"">>
    /\ ~loading

C6_Witness ==
  /\ last.op = "refreshProducts" /\ pc = "idle" /\ last.slot.kind = "garbage"
  /\ LiveList # <<>> /\ LiveList # initialProducts
  /\ error = Str("Failed to refresh products")

\* C6, as claimed: the same for every text JSON.parse rejects, the empty
\* string among them.
C6_RefreshKeepsListOnUnparseable ==
  (last.op = "refreshProducts" /\ pc = "idle" /\ last.slot.kind \in {"garbage", "empty"}) =>
    /\ LiveList = last.live
    /\ error.t = "string" /\ error.s # <<>> /\ error.s # <<"">>

\* C7: addProduct, updateProduct and deleteProduct never throw to their caller.
C7_MutatorsNeverThrow == last.op \in Mutators => ~last.threw

\* C8: every entry of the live list has updatedAt >= createdAt.
C8_UpdatedNotBeforeCreated ==
  \A i \in DOMAIN LiveList : GreaterOrEqual(LiveList[i].updatedAt, LiveList[i].createdAt)

\* C9: once refreshProducts has read the slot, the list is the parsed snapshot
\* when the slot held JSON, and the seed list when the slot held no item,
\* whatever the list was.
C9_RefreshAdoptsSnapshot ==
  (last.op = "refreshProducts" /\ pc # "try") =>
    /\ last.slot.kind = "json" => LiveList = JSONparse(last.slot)
    /\ last.slot.kind = "absent" => LiveList = initialProducts

\* A refresh on an absent slot has replaced a list that was not the seed list
C9_Witness ==
  /\ last.op = "refreshProducts" /\ pc = "idle" /\ last.slot.kind = "absent"
  /\ last.live # initialProducts /\ LiveList = initialProducts

\* A refresh on a snapshot has replaced a list that differed from it
C9_WitnessSnapshot ==
  /\ last.op = "refreshProducts" /\ pc = "idle" /\ last.slot.kind = "json"
  /\ last.live # JSONparse(last.slot) /\ LiveList = JSONparse(last.slot)

\* C10: a page load adopts the parsed snapshot when the slot holds JSON and
\* the seed list when the slot holds no item; and a load that follows a
\* mutating call finds the list that call produced.
C10_LoadRecoversList ==
  last.op = "load" =>
    /\ last.slot.kind = "json" => mounted /\ products = JSONparse(last.slot)
    /\ last.slot.kind = "absent" => mounted /\ products = initialProducts
    /\ last.prev \in Mutators => products = last.live

\* C11: getProductsByCategory(c) returns the whole list of the store value when
\* c is 'All'; otherwise the entries whose category is exactly c, all of them
\* and no other, in the order of the list.
C11_FilterByCategory ==
  last.op = "getProductsByCategory" =>
    LET c == last.arg.category
        r == last.result
        at == {i \in DOMAIN last.before : last.before[i].category = c}
        nth(k) == CHOOSE i \in at : Cardinality({j \in at : j < i}) = k - 1
    IN  IF c = Str("All") THEN r = last.before
        ELSE /\ Len(r) = Cardinality(at)
             /\ \A k \in 1..Len(r) : r[k] = last.before[nth(k)]

\* A category has selected some entries of the list and left others out
C11_Witness ==
  /\ last.op = "getProductsByCategory" /\ last.arg.category = Str("Watches")
  /\ Len(last.result) >= 1 /\ Len(last.result) < Len(products)
  /\ \E i \in DOMAIN products : products[i].category # Str("Watches")

\* C12: a getProductsByCategory call leaves the list, the queued list, the
\* slot, the loading flag and the error as they are; and a call that follows
\* another with the same category, the list not having changed, returns the
\* same sequence.
C12_ReadIsPure ==
  [][(last'.op = "getProductsByCategory" /\ nOps' # nOps) =>
       /\ UNCHANGED <<products, pending, storage, loading, error>>
       /\ (last.op = "getProductsByCategory" /\ last.arg = last'.arg
           /\ last.before = products) => last'.result = last.result]_vars

\* Two calls with the same category in a row, on a list with entries
C12_Witness ==
  /\ last.op = "getProductsByCategory" /\ last.prev = "getProductsByCategory"
  /\ last.arg = last.prevArg /\ last.result = last.prevResult
  /\ last.result # <<>> /\ storage.kind = "json"

\* C15: useProducts in a component outside a ProductProvider throws its
\* message and returns no store value; inside one it returns the provider's
\* value and does not throw.
C15_UseProductsScope ==
  last.op = "useProducts" =>
    IF last.inside
    THEN /\ ~last.threw
         /\ last.result.t = "object"
         /\ last.result.value = [products |-> last.before, loading |-> loading, error |-> error]
    ELSE /\ last.threw
         /\ last.result = Undefined
         /\ last.message = "useProducts must be used within a ProductProvider"

C15_Witness ==
  /\ last.op = "useProducts" /\ ~last.inside /\ last.threw /\ last.message # ""

C15_WitnessInside ==
  /\ last.op = "useProducts" /\ last.inside /\ ~last.threw
  /\ last.result.value.products # <<>>

\* C13: the loading flag is true only while refreshProducts runs, and every
\* refreshProducts that has started comes to its end with the flag false,
\* whether the read failed or not.
C13_LoadingClears ==
  /\ [](loading => pc # "idle")
  /\ (pc = "try" ~> (pc = "idle" /\ ~loading))

\* A refresh that failed has resolved with the flag cleared
C13_Witness ==
  /\ last.op = "refreshProducts" /\ pc = "idle" /\ ~loading
  /\ error = Str("Failed to refresh products")

\* A refresh is under way with the flag set
C13_WitnessLoading == pc = "try" /\ loading

\* C14: the seed list holds the records of the men's, women's, kids' and
\* watches datasets in that order, each with its price times 75: 750 for
\* "$10.00" and for 10 in each dataset, the number times 75 for a numeric
\* price, the digits without the separators times 75 for a textual one.
C14_SeedPrices ==
  LET raw == datasets[1] \o datasets[2] \o datasets[3] \o datasets[4]
  IN  /\ Len(initialProducts) = Len(raw)
      /\ \A i \in DOMAIN raw :
           LET p == raw[i].price
               q == initialProducts[i].price
           IN  /\ initialProducts[i].category = raw[i].category
               /\ p = Text(<<"$", "1", "0", ".", "0", "0">>) => q = Whole(750)
               /\ p = Whole(10) => q = Whole(750)
               /\ p = Text(<<"1", ",", "2", "0", "0", ".", "5">>) => q = Num(9003750)
               /\ p.t = "number" => q = Num(p.n * 75)

\* A page load has seeded "$10.00" and 10 from different datasets
C14_Witness ==
  /\ last.op = "load" /\ nOps > 0 /\ products = initialProducts
  /\ datasets[2][1].price = Text(<<"$", "1", "0", ".", "0", "0">>)
  /\ datasets[4][1].price = Whole(10)
  /\ Len(datasets[1]) = 2 /\ Len(datasets[3]) = 1
  /\ initialProducts[3].price = Whole(750) /\ initialProducts[5].price = Whole(750)

\* C16: updateProduct(x) with the identifier of an entry puts, at that entry's
\* place, x's fields with updatedAt now and nothing of the old entry (no
\* createdAt unless x carries one); the length, the order and every entry with
\* another identifier stay.
C16_UpdateReplacesWholesale ==
  (last.op = "updateProduct" /\ HasId(last.before, last.arg.id)) =>
    /\ Len(LiveList) = Len(last.before)
    /\ \A i \in DOMAIN last.before :
         IF last.before[i].id = last.arg.id
         THEN /\ LiveList[i].updatedAt = toISOString(last.at)
              /\ \A f \in Fields \ {"updatedAt"} : LiveList[i][f] = last.arg[f]
         ELSE LiveList[i] = last.before[i]

\* An update without createdAt, sizes or media has dropped them from an entry
\* that had them, next to entries it left alone
C16_Witness ==
  /\ last.op = "updateProduct" /\ Len(last.before) >= 2
  /\ \E i \in DOMAIN last.before :
       /\ last.before[i].id = last.arg.id
       /\ last.before[i].createdAt # Undefined /\ LiveList[i].createdAt = Undefined
       /\ last.before[i].media # Undefined /\ LiveList[i].media = Undefined

\* C17: when a mutating call follows an addProduct through the same store value
\* (no render in between), the list and the slot hold the effect of both: the
\* entry the first call added and the second call's append or removal.
C17_NoLostMutation ==
  (/\ last.op \in {"addProduct", "deleteProduct"}
   /\ last.prev = "addProduct"
   /\ last.live # last.before) =>
    LET added == last.live[Len(last.live)]
    IN  /\ IF last.op = "addProduct"
           THEN /\ Len(LiveList) = Len(last.live) + 1
                /\ SubSeq(LiveList, 1, Len(last.live)) = last.live
           ELSE LiveList = SelectSeq(last.live, LAMBDA q : q.id # last.arg.id)
        /\ ~last.threw => storage = JSONstringify(LiveList)
        /\ (last.op = "addProduct" \/ added.id # last.arg.id) =>
             \E i \in DOMAIN LiveList : LiveList[i] = added

OtherMutators == {"other.addProduct", "other.deleteProduct"}

\* C18: with a second provider on the same slot, a mutating call of the second
\* that did not throw leaves its whole list as the snapshot, whatever the first
\* had written; and a refreshProducts of the first that follows and finds that
\* snapshot makes it the first's list, the error state being null.
C18_LastWriteWins ==
  /\ (last.op \in OtherMutators /\ ~last.threw) =>
       storage = JSONstringify(other.products)
  /\ (/\ last.op = "refreshProducts" /\ pc # "try"
      /\ last.prev \in OtherMutators
      /\ last.slot = JSONstringify(other.products)) =>
       /\ LiveList = JSONparse(JSONstringify(other.products))
       /\ error = Null

\* The first provider had an entry of its own in a list that fitted the slot;
\* the second wrote; the first's refresh has taken the second's list and the
\* entry is gone, no error being set
C18_Witness ==
  /\ last.op = "refreshProducts" /\ pc = "idle" /\ last.prev \in OtherMutators
  /\ error = Null /\ Fits(last.live)
  /\ LiveList = JSONparse(JSONstringify(other.products))
  /\ \E i \in DOMAIN last.live :
       /\ ~HasId(initialProducts, last.live[i].id)
       /\ ~HasId(LiveList, last.live[i].id)

====
